---------------------------- MODULE Spec2Model ----------------------------
(***************************************************************************)
(* A model of the iocost-benchmarks ingestion bot (src/bin/import-results.rs).*)
(*                                                                         *)
(* One run of the binary is a sequential program: decode the event         *)
(* payload, extract the whitelisted links, and for every link download,    *)
(* identify the model, place the file and add it to the index; then merge  *)
(* every recorded directory, commit, update the bot branch and push.       *)
(*                                                                         *)
(* Strings are sequences of tokens (short strings standing for runs of     *)
(* characters); "/" , " " , "\n", ":" , "?" and "*" are tokens of their    *)
(* own, so that prefix tests, whitespace splitting, path splitting and     *)
(* glob matching are computed as the code and its libraries compute them.  *)
(***************************************************************************)
EXTENDS Naturals, Sequences, FiniteSets, TLC

(***************************************************************************)
(* Bounds of the model.                                                    *)
(***************************************************************************)
\* longest run of accepted links in a payload body of the pipeline payloads
MaxUrls == 2
\* number of distinct byte contents a server may answer with
MaxContents == 2
\* longest text (in items) the link extraction is checked on
MaxLinks == 3
MaxRuns == 2

(***************************************************************************)
(* Strings                                                                 *)
(***************************************************************************)
\* str::starts_with
StartsWith(s, prefix) ==
    /\ Len(prefix) <= Len(s)
    /\ SubSeq(s, 1, Len(prefix)) = prefix

\* the sequences over S of length at most n
SeqUpTo(S, n) == UNION {[1..k -> S] : k \in 0..n}

\* the elements of a sequence
Range(s) == {s[i] : i \in 1..Len(s)}

\* index of the first occurrence of token t in s, 0 if there is none
RECURSIVE IndexFrom(_, _, _)
IndexFrom(s, t, i) ==
    IF i > Len(s) THEN 0
    ELSE IF s[i] = t THEN i
    ELSE IndexFrom(s, t, i + 1)

\* index of the first occurrence of the two tokens ":" " " in s, 0 if none
RECURSIVE ColonSpaceFrom(_, _)
ColonSpaceFrom(s, i) ==
    IF i + 1 > Len(s) THEN 0
    ELSE IF s[i] = ":" /\ s[i + 1] = " " THEN i
    ELSE ColonSpaceFrom(s, i + 1)

\* str::split_whitespace: the maximal runs of non-whitespace tokens
RECURSIVE SplitWs(_, _, _, _)
SplitWs(s, i, cur, acc) ==
    IF i > Len(s) THEN (IF cur = <<>> THEN acc ELSE Append(acc, cur))
    ELSE IF s[i] \in {" ", "\n"}
         THEN SplitWs(s, i + 1, <<>>, IF cur = <<>> THEN acc ELSE Append(acc, cur))
         ELSE SplitWs(s, i + 1, Append(cur, s[i]), acc)

split_whitespace(s) == SplitWs(s, 1, <<>>, <<>>)

\* [&str]::join
RECURSIVE join(_, _)
join(words, sep) ==
    IF words = <<>> THEN <<>>
    ELSE IF Len(words) = 1 THEN words[1]
    ELSE words[1] \o sep \o join(Tail(words), sep)

\* splitting a string on a separator token, empty pieces dropped
RECURSIVE SplitOn(_, _, _, _, _)
SplitOn(s, t, i, cur, acc) ==
    IF i > Len(s) THEN (IF cur = <<>> THEN acc ELSE Append(acc, cur))
    ELSE IF s[i] = t
         THEN SplitOn(s, t, i + 1, <<>>, IF cur = <<>> THEN acc ELSE Append(acc, cur))
         ELSE SplitOn(s, t, i + 1, Append(cur, s[i]), acc)

\* std::path::Path::components of a relative path: the pieces between "/"
Components(path) == SplitOn(path, "/", 1, <<>>, <<>>)

\* Path::parent, on components
Parent(comps) == SubSeq(comps, 1, Len(comps) - 1)

(***************************************************************************)
(* The allowlist and the link extraction                                   *)
(***************************************************************************)
ALLOWED_PREFIXES ==
    << <<"https://", "github.com/", "kov/iocost-benchmarks/", "files/">>,
       <<"https://", "iocost-submit.s3.eu-west-1.amazonaws.com/">> >>

\* a whitelist test that forgets the second prefix
IsUrlWhitelistedFirstOnly(link) == StartsWith(link, ALLOWED_PREFIXES[1])

is_url_whitelisted(link) ==
    \E i \in 1..Len(ALLOWED_PREFIXES) : StartsWith(link, ALLOWED_PREFIXES[i])

\* links of the payload texts: two trusted ones, and untrusted ones that share
\* tokens with a trusted prefix
T1 == ALLOWED_PREFIXES[1] \o <<"9000/", "result.json.gz">>
T2 == ALLOWED_PREFIXES[2] \o <<"result.json.gz">>
U1 == <<"https://", "github.com/", "kov/iocost-benchmarks/", "issues/", "1">>
U2 == <<"https://", "github.com/", "evil/", "files/", "result.json.gz">>
U3 == <<"http://", "evil.example/", "?u=">> \o ALLOWED_PREFIXES[2] \o <<"x">>

TrustedLinks == {T1, T2}
UntrustedLinks == {U1, U2, U3}

\* a text is a sequence of items; an item is a link the link finder detects or
\* a word it does not
LinkItem(l) == [link |-> TRUE, str |-> l]
WordItem == [link |-> FALSE, str |-> <<"see">>]
Items == {LinkItem(l) : l \in TrustedLinks \cup UntrustedLinks} \cup {WordItem}

\* linkify::LinkFinder::new().links(body): the detected links, in order
LinkFinderLinks(text) ==
    LET sel == SelectSeq(text, LAMBDA it : it.link)
    IN  [i \in 1..Len(sel) |-> sel[i].str]

\* the loop of get_urls over the detected links
FilterLinks(links) == SelectSeq(links, is_url_whitelisted)

(***************************************************************************)
(* The event payload                                                       *)
(***************************************************************************)
Some(text) == [present |-> TRUE, text |-> text]
None == [present |-> FALSE, text |-> <<>>]

\* a match whose default arm takes the issue body
ResolveBodyDefaultIssue(c) ==
    IF c.action = "created" \/ (c.action = "edited" /\ c.event_name = "issue_comment")
    THEN [bail |-> FALSE, body |-> c.comment_body]
    ELSE [bail |-> FALSE, body |-> c.issue_body]

\* the match of get_urls on the action: the body it selects, or a bail
ResolveBody(c) ==
    CASE c.action = "created" -> [bail |-> FALSE, body |-> c.comment_body]
      [] c.action = "opened"  -> [bail |-> FALSE, body |-> c.issue_body]
      [] c.action = "edited"  ->
            IF c.event_name = "issue_comment"
            THEN [bail |-> FALSE, body |-> c.comment_body]
            ELSE [bail |-> FALSE, body |-> c.issue_body]
      [] OTHER -> [bail |-> TRUE, body |-> None]

\* a gate that forgets the state of the issue
IssueGateLockedOnly(c) == c.locked

\* the gate of get_urls on the issue
IssueGate(c) == c.locked \/ c.state # "open"


(***************************************************************************)
(* Downloaded contents and their names                                     *)
(***************************************************************************)
\* the byte contents a server may answer with
Contents == 1..MaxContents

\* a digest under which every content collides
Md5HexCollide(c) == "0"

\* format!("{:x}", md5::compute(&contents)): injective on the modelled contents
Md5Hex(c) == ToString(c)

\* format!("result-{:x}.json.gz", ...)
ResultFilename(c) == <<"result-", Md5Hex(c), ".json.gz">>

\* what reqwest::get(url) and response.bytes() may produce: a transport error,
\* or a response with a status and a body
Responses ==
    {[transport_ok |-> FALSE, status |-> "none", body |-> 1]}
    \cup {[transport_ok |-> TRUE, status |-> s, body |-> b] :
              s \in {"200", "404"}, b \in Contents}

\* a download_url that never fails
DownloadNeverFails(resp) == FALSE

\* download_url returns Err exactly when reqwest::get or bytes() does; the
\* status of a received response is never inspected
DownloadFails(resp) == ~resp.transport_ok

(***************************************************************************)
(* The external tool's info report and the normalized model name           *)
(***************************************************************************)
\* model descriptions the tool may report on the first line of its output
Descriptions ==
    { <<"WDC">>,
      <<"WDC", " ", "WD10">>,
      <<"WDC", " ", " ", "WD10">>,
      <<"WDC", "/", "WD10">>,
      <<"WDC", "?", "WD10">> }

Report(d) == <<"Model", ":", " ">> \o d \o <<"\n", "Version", ":", " ", "2", "\n">>

\* outputs of `resctl-bench --result <file> info`: something on the error
\* stream, or a standard output that is a report, has no line break, or has
\* no ": " on its first line
InfoOutputs ==
    {[stderr |-> TRUE, stdout |-> <<>>]}
    \cup {[stderr |-> FALSE, stdout |-> Report(d)] : d \in Descriptions}
    \cup {[stderr |-> FALSE, stdout |-> <<"Model", ":", " ", "WDC">>],
          [stderr |-> FALSE, stdout |-> <<"WDC", "\n">>]}

\* .split_whitespace().collect::<Vec<&str>>().join("_")
Normalize(desc) == join(split_whitespace(desc), <<"_">>)

\* the parse of get_normalized_model_name: split_once('\n').unwrap().0
\* .split_once(": ").unwrap().1, normalized; an unwrap of None panics
ParseModelName(stdout) ==
    LET nl == IndexFrom(stdout, "\n", 1)
        line == SubSeq(stdout, 1, nl - 1)
        cs == ColonSpaceFrom(line, 1)
    IN  IF nl = 0 \/ cs = 0
        THEN [panic |-> TRUE, name |-> <<>>]
        ELSE [panic |-> FALSE,
              name |-> Normalize(SubSeq(line, cs + 2, Len(line)))]

\* get_normalized_model_name: Err when the tool cannot be run, a panic when
\* its error stream is not empty or the report does not parse, else the name
GetNormalizedModelName(spawned, out) ==
    IF ~spawned THEN [kind |-> "error", name |-> <<>>]
    ELSE IF out.stderr THEN [kind |-> "panic", name |-> <<>>]
    ELSE IF ParseModelName(out.stdout).panic THEN [kind |-> "panic", name |-> <<>>]
    ELSE [kind |-> "ok", name |-> ParseModelName(out.stdout).name]

(***************************************************************************)
(* Paths, the file system and glob                                         *)
(***************************************************************************)
\* PathBuf::from(format!("database/{}", model_name))
ModelDirectory(model_name) == <<"database", "/">> \o model_name

\* Path::join with a relative file name
PathJoin(path, name) == path \o <<"/">> \o name

\* model_directory.join(&filename)
DatabaseFile(model_name, filename) == PathJoin(ModelDirectory(model_name), filename)

MergedName == <<"merged-results", ".json.gz">>

\* fs::create_dir succeeds iff the parent is a directory and nothing is there
CreateDirOk(ds, fs, p) ==
    /\ p # <<>>
    /\ Parent(p) \in ds
    /\ p \notin ds
    /\ p \notin DOMAIN fs

\* a create_dir whose error is propagated
CreateDirFatalWhenFailed(created) == ~created

\* .ok() on the result of fs::create_dir: its error is dropped
CreateDirFatal(created) == FALSE

\* a rename that copies: the source stays
RenamedKeepingSource(fs, src, dst) ==
    [p \in DOMAIN fs \cup {dst} |-> IF p = dst THEN fs[src] ELSE fs[p]]

\* fs::rename of a file succeeds iff the source exists and the destination's
\* parent is a directory (and the destination is no directory)
RenameOk(ds, fs, src, dst) ==
    /\ src \in DOMAIN fs
    /\ dst # <<>>
    /\ Parent(dst) \in ds
    /\ dst \notin ds

\* the files after a rename: the source is gone, the destination holds its
\* content (an existing destination is replaced)
Renamed(fs, src, dst) ==
    [p \in (DOMAIN fs \ {src}) \cup {dst} |-> IF p = dst THEN fs[src] ELSE fs[p]]

\* the files after a write
Written(fs, p, c) == [q \in DOMAIN fs \cup {p} |-> IF q = p THEN c ELSE fs[q]]

\* glob::Pattern::matches on one path component: "*" matches any run of
\* tokens, "?" any one token, every other token itself
RECURSIVE GlobMatch(_, _)
GlobMatch(pat, s) ==
    IF pat = <<>> THEN s = <<>>
    ELSE IF pat[1] = "*"
         THEN GlobMatch(Tail(pat), s) \/ (s # <<>> /\ GlobMatch(pat, Tail(s)))
    ELSE IF s = <<>> THEN FALSE
    ELSE IF pat[1] = "?" THEN GlobMatch(Tail(pat), Tail(s))
    ELSE pat[1] = s[1] /\ GlobMatch(Tail(pat), Tail(s))

\* glob(pattern): the existing paths whose components match the pattern's
\* components one by one; the pattern is the formatted path, unescaped
Glob(fs, pattern) ==
    LET pc == Components(pattern)
    IN  {f \in DOMAIN fs :
            /\ Len(f) = Len(pc)
            /\ \A i \in 1..Len(pc) : GlobMatch(pc[i], f[i])}

\* the pattern merge_results_in_dir hands to glob
MergePattern(path) == path \o <<"/", "result-", "*", ".json.gz">>


(***************************************************************************)
(* The external tool's merge call and the commit                           *)
(***************************************************************************)
\* a merged path that forgets the directory
MergedPathInCwd(path) == MergedName

\* path.join("merged-results.json.gz")
MergedPath(path) == PathJoin(path, MergedName)

\* the argument vector of the merge call, the result files as a set (their
\* order is the file system's)
MergeArguments(fs, path) ==
    [flag |-> "--result", out |-> MergedPath(path), cmd |-> "merge",
     inputs |-> Glob(fs, MergePattern(path))]

\* format!("Updated {}", directories.join(", "))
CommitMessage(directories) == <<"Updated ">> \o join(directories, <<", ">>)

\* a branch name that does not depend on the issue
BranchNameShared(c) == <<"iocost-bot/", "results">>

\* format!("iocost-bot/{}", context["event"]["issue"]["id"])
BranchName(c) == <<"iocost-bot/", ToString(c.id)>>

\* a refspec without the refs/heads/ prefix
RemoteRefWithoutPrefix(c) == BranchName(c)

\* format!("+HEAD:refs/heads/{branch_name}"): the remote reference pushed to
RemoteRef(c) == <<"refs/heads/">> \o BranchName(c)

(***************************************************************************)
(* Payloads and initial trees                                              *)
(***************************************************************************)
IssueIds == {1, 2}

\* every combination of event, action, lock and state, over short bodies
GatePayloads ==
    {[event_name |-> e, action |-> a, locked |-> l, state |-> s, id |-> i,
      issue_body |-> Some(<<LinkItem(T1)>>),
      comment_body |-> IF e = "issue_comment"
                       THEN Some(<<WordItem, LinkItem(T2)>>) ELSE None] :
        e \in {"issues", "issue_comment"},
        a \in {"opened", "edited", "created", "deleted"},
        l \in BOOLEAN, s \in {"open", "closed"}, i \in IssueIds}

\* issue bodies of the payloads that exercise the pipeline
PipelineTexts ==
    {[i \in 1..k |-> LinkItem(T1)] : k \in 0..MaxUrls}
    \cup {<<LinkItem(T1), LinkItem(U1), LinkItem(T2)>>,
          <<LinkItem(U2), WordItem, LinkItem(U3)>>}

PipelinePayloads ==
    {[event_name |-> "issues", action |-> "opened", locked |-> FALSE,
      state |-> "open", id |-> 1, issue_body |-> Some(t),
      comment_body |-> None] : t \in PipelineTexts}

Payloads == GatePayloads \cup PipelinePayloads

\* the component paths of the checkout's root and of database/
RootDir == <<>>
DatabaseDir == <<(<<"database">>)>>

\* a model directory left by an earlier run: one result and its merge
SeededDir == Components(ModelDirectory(Normalize(<<"WDC", " ", "WD10">>)))

InitialTrees ==
    {[dirs |-> {RootDir, DatabaseDir}, files |-> <<>>],
     [dirs |-> {RootDir, DatabaseDir, SeededDir},
      files |-> (Append(SeededDir, ResultFilename(1)) :> 1)
                @@ (Append(SeededDir, MergedName) :> 0)]}

(***************************************************************************)
(* State                                                                   *)
(***************************************************************************)
VARIABLES
    ctx,                  \* the decoded GITHUB_CONTEXT
    pc,                   \* position of main
    result,               \* "running", or how the process ended
    urls,                 \* main's urls: what get_urls returned
    urlIdx,               \* position of the loop over urls
    filename,             \* main's filename: the path download_url returned
    model_name,           \* main's model_name
    directories_to_merge, \* main's directories_to_merge
    mergeIdx,             \* position of the merge loop
    dirs,                 \* file system: the directories
    files,                \* file system: the files and their contents
    index,                \* paths added to git2's index by this process
    commits,              \* the repository's commits
    head,                 \* the commit HEAD designates
    branches,             \* local branches
    remote,               \* references of the remote
    faults,               \* history: what the environment made fail
    downloads,            \* history: the URLs requested
    written,              \* history: the files download_url created
    infoCalls,            \* history: the arguments of the tool's info calls
    placed,               \* history: the renames into model directories
    merges,               \* history: the tool's merge calls
    gitOps,               \* history: the git operations attempted, in order
    runs                  \* history: the runs that ended before this one

vars == <<ctx, pc, result, urls, urlIdx, filename, model_name,
          directories_to_merge, mergeIdx, dirs, files, index, commits, head,
          branches, remote, faults, downloads, written, infoCalls, placed,
          merges, gitOps, runs>>

local == <<urls, urlIdx, filename, model_name, directories_to_merge, mergeIdx>>
fsys == <<dirs, files>>
git == <<commits, head, branches, remote>>
history == <<downloads, written, infoCalls, placed, merges>>

InitAt(entry, payloads, trees) ==
    /\ ctx \in payloads
    /\ pc = entry
    /\ result = "running"
    /\ urls = <<>>
    /\ urlIdx = 1
    /\ filename = <<>>
    /\ model_name = <<>>
    /\ directories_to_merge = <<>>
    /\ mergeIdx = 1
    /\ \E t \in trees : dirs = t.dirs /\ files = t.files
    /\ index = {}
    /\ commits = <<[parent |-> 0, tree |-> {}, message |-> <<"initial">>]>>
    /\ head = 1
    /\ branches = <<>>
    /\ remote = <<>>
    /\ faults = {}
    /\ downloads = <<>>
    /\ written = <<>>
    /\ infoCalls = <<>>
    /\ placed = <<>>
    /\ merges = <<>>
    /\ gitOps = <<>>
    /\ runs = <<>>

InitOver(payloads, trees) == InitAt("start", payloads, trees)

InitWith(payloads) == InitOver(payloads, InitialTrees)

Init == InitWith(Payloads)

\* the process ends: Ok(()) or exit(0) ("ok", "noop"), an Err returned from
\* main ("error") or a panic ("panic")
Exit(how) ==
    /\ pc' = "exited"
    /\ result' = how

\* the exit code of the process
ExitCode ==
    CASE result \in {"ok", "noop"} -> 0
      [] result = "error" -> 1
      [] result = "panic" -> 101
      [] OTHER -> 255

\* where main goes when the loop over the URLs is over
AfterUrls(directories) == IF directories = <<>> THEN "commit" ELSE "merge"

\* the result files of a directory: the files directly in it named
\* result-<something>.json.gz
IsResultName(name) ==
    /\ Len(name) >= 2
    /\ name[1] = "result-"
    /\ name[Len(name)] = ".json.gz"

ResultFilesIn(fs, d) ==
    {f \in DOMAIN fs : Len(f) = Len(d) + 1 /\ Parent(f) = d /\ IsResultName(f[Len(f)])}

(***************************************************************************)
(* main                                                                    *)
(***************************************************************************)
\* main, up to get_urls: GITHUB_TOKEN, the parse of GITHUB_CONTEXT, the open
\* of the repository and of its index; each may fail with an Err
Start ==
    /\ pc = "start"
    /\ \E ok \in BOOLEAN :
          IF ok THEN pc' = "get_urls" /\ result' = result /\ faults' = faults
                ELSE Exit("error") /\ faults' = faults \cup {"setup"}
    /\ UNCHANGED <<ctx, runs, gitOps, local, fsys, index, git, history>>

\* get_urls: the gate on the issue, the choice of the body, the extraction
GetUrls ==
    /\ pc = "get_urls"
    /\ LET r == ResolveBody(ctx)
       IN  IF IssueGate(ctx) THEN Exit("noop") /\ urls' = urls
           ELSE IF r.bail THEN Exit("error") /\ urls' = urls
           ELSE IF ~r.body.present THEN Exit("panic") /\ urls' = urls
           ELSE /\ urls' = FilterLinks(LinkFinderLinks(r.body.text))
                /\ pc' = IF urls' = <<>> THEN AfterUrls(directories_to_merge)
                                         ELSE "download"
                /\ result' = result
    /\ UNCHANGED <<ctx, runs, gitOps, urlIdx, filename, model_name, directories_to_merge,
                   mergeIdx, fsys, index, git, faults, history>>

\* download_url(&url)?: the request, and for every response received the
\* file named after the digest of its body, created in the working directory
Download ==
    /\ pc = "download"
    /\ downloads' = Append(downloads, urls[urlIdx])
    /\ \E resp \in Responses :
          /\ faults' = faults
                \cup (IF resp.transport_ok THEN {} ELSE {"transport"})
                \cup (IF resp.status = "404" THEN {"http_status"} ELSE {})
          /\ IF DownloadFails(resp)
             THEN /\ Exit("error")
                  /\ UNCHANGED <<filename, files, written>>
             ELSE /\ filename' = ResultFilename(resp.body)
                  /\ files' = Written(files, Components(filename'), resp.body)
                  /\ written' = Append(written,
                                   [name |-> filename', content |-> resp.body,
                                    status |-> resp.status, url |-> urls[urlIdx]])
                  /\ pc' = "info"
                  /\ result' = result
    /\ UNCHANGED <<ctx, runs, gitOps, urls, urlIdx, model_name, directories_to_merge,
                   mergeIdx, dirs, index, git, infoCalls, placed, merges>>

\* get_normalized_model_name(&filename)?: the info call and the parse
Info ==
    /\ pc = "info"
    /\ infoCalls' = Append(infoCalls, <<"--result", filename, "info">>)
    /\ \E spawned \in BOOLEAN : \E out \in InfoOutputs :
          LET r == GetNormalizedModelName(spawned, out)
          IN  /\ faults' = faults
                    \cup (IF ~spawned THEN {"info_spawn"} ELSE {})
                    \cup (IF spawned /\ out.stderr THEN {"info_stderr"} ELSE {})
                    \cup (IF spawned /\ ~out.stderr /\ ParseModelName(out.stdout).panic
                          THEN {"info_parse"} ELSE {})
              /\ IF r.kind = "ok"
                 THEN /\ model_name' = r.name
                      /\ pc' = "place"
                      /\ result' = result
                 ELSE /\ Exit(r.kind)
                      /\ model_name' = model_name
    /\ UNCHANGED <<ctx, runs, gitOps, urls, urlIdx, filename, directories_to_merge, mergeIdx,
                   fsys, index, git, downloads, written, placed, merges>>

\* fs::create_dir(&model_directory).ok(); fs::rename(&filename, &database_file)?
Place ==
    /\ pc = "place"
    /\ LET md == Components(ModelDirectory(model_name))
           src == Components(filename)
           dst == Components(DatabaseFile(model_name, filename))
           ds == IF CreateDirOk(dirs, files, md) THEN dirs \cup {md} ELSE dirs
       IN  /\ dirs' = ds
           /\ IF CreateDirFatal(CreateDirOk(dirs, files, md))
              THEN /\ Exit("error")
                   /\ faults' = faults \cup {"create_dir"}
                   /\ UNCHANGED <<files, placed>>
              ELSE IF RenameOk(ds, files, src, dst)
              THEN /\ files' = Renamed(files, src, dst)
                   /\ placed' = Append(placed,
                                  [dir |-> md, file |-> dst,
                                   content |-> files[src],
                                   model |-> model_name])
                   /\ pc' = "add"
                   /\ result' = result
                   /\ faults' = faults
              ELSE /\ Exit("error")
                   /\ faults' = faults \cup {"rename"}
                   /\ UNCHANGED <<files, placed>>
    /\ UNCHANGED <<ctx, runs, gitOps, local, index, git, downloads, written, infoCalls,
                   merges>>

\* index.add_path(&database_file)?; directories_to_merge.push(model_directory)
Add ==
    /\ pc = "add"
    /\ LET dst == Components(DatabaseFile(model_name, filename))
       IN  IF dst \in DOMAIN files
           THEN /\ index' = index \cup {dst}
                /\ gitOps' = Append(gitOps, [op |-> "stage", ok |-> TRUE])
                /\ directories_to_merge' =
                      Append(directories_to_merge, ModelDirectory(model_name))
                /\ urlIdx' = urlIdx + 1
                /\ pc' = IF urlIdx' > Len(urls)
                         THEN AfterUrls(directories_to_merge') ELSE "download"
                /\ result' = result
                /\ faults' = faults
           ELSE /\ Exit("error")
                /\ faults' = faults \cup {"add_path"}
                /\ gitOps' = Append(gitOps, [op |-> "stage", ok |-> FALSE])
                /\ UNCHANGED <<index, directories_to_merge, urlIdx>>
    /\ UNCHANGED <<ctx, runs, urls, filename, model_name, mergeIdx, fsys, git, history>>

\* one turn of the merge loop: merge_results_in_dir(dir)? and
\* index.add_path(&merged_path)?
Merge ==
    /\ pc = "merge"
    /\ LET dir == directories_to_merge[mergeIdx]
           args == MergeArguments(files, dir)
           out == Components(args.out)
       IN  /\ merges' = Append(merges,
                           [dir |-> dir, args |-> args,
                            placedBefore |-> Len(placed),
                            present |-> ResultFilesIn(files, Components(dir))])
           /\ \E outcome \in {"spawn_error", "stderr", "merged"} :
                 IF outcome = "merged"
                 THEN /\ files' = Written(files, out, 0)
                      /\ index' = index \cup {out}
                      /\ gitOps' = Append(gitOps, [op |-> "stage", ok |-> TRUE])
                      /\ mergeIdx' = mergeIdx + 1
                      /\ pc' = IF mergeIdx' > Len(directories_to_merge)
                               THEN "commit" ELSE "merge"
                      /\ result' = result
                      /\ faults' = faults
                 ELSE /\ Exit(IF outcome = "stderr" THEN "panic" ELSE "error")
                      /\ faults' = faults \cup {IF outcome = "stderr"
                                                THEN "merge_stderr"
                                                ELSE "merge_spawn"}
                      /\ UNCHANGED <<files, index, mergeIdx, gitOps>>
    /\ UNCHANGED <<ctx, runs, urls, urlIdx, filename, model_name,
                   directories_to_merge, dirs, git, downloads, written,
                   infoCalls, placed>>

\* the signature, the parent, write_tree and git_repo.commit(Some("HEAD"), ..)
Commit ==
    /\ pc = "commit"
    /\ \E ok \in BOOLEAN :
          /\ gitOps' = Append(gitOps, [op |-> "commit", ok |-> ok])
          /\ IF ok
             THEN /\ commits' = Append(commits,
                                   [parent |-> head, tree |-> index,
                                    message |-> CommitMessage(directories_to_merge)])
                  /\ head' = Len(commits')
                  /\ pc' = "branch"
                  /\ result' = result
                  /\ faults' = faults
             ELSE /\ Exit("error")
                  /\ faults' = faults \cup {"commit"}
                  /\ UNCHANGED <<commits, head>>
    /\ UNCHANGED <<ctx, runs, local, fsys, index, branches, remote, history>>

\* a branch step whose error is dropped: main goes on to the push
BranchIgnoringError ==
    /\ pc = "branch"
    /\ \E ok \in BOOLEAN :
          /\ gitOps' = Append(gitOps, [op |-> "branch", ok |-> ok])
          /\ branches' = IF ok THEN (BranchName(ctx) :> head) @@ branches
                               ELSE branches
          /\ faults' = IF ok THEN faults ELSE faults \cup {"branch"}
          /\ pc' = "push"
          /\ result' = result
    /\ UNCHANGED <<ctx, runs, local, fsys, index, commits, head, remote, history>>

\* git_repo.branch(&branch_name, &commit, true)?
Branch ==
    /\ pc = "branch"
    /\ \E ok \in BOOLEAN :
          /\ gitOps' = Append(gitOps, [op |-> "branch", ok |-> ok])
          /\ IF ok
             THEN /\ branches' = (BranchName(ctx) :> head) @@ branches
                  /\ pc' = "push"
                  /\ result' = result
                  /\ faults' = faults
             ELSE /\ Exit("error")
                  /\ faults' = faults \cup {"branch"}
                  /\ UNCHANGED branches
    /\ UNCHANGED <<ctx, runs, local, fsys, index, commits, head, remote, history>>

\* remote.push(&["+HEAD:refs/heads/{branch_name}"], ..)?: accepted, failed
\* with an Err, or rejected (push_update_reference panics)
Push ==
    /\ pc = "push"
    /\ \E outcome \in {"accepted", "error", "rejected"} :
          /\ gitOps' = Append(gitOps, [op |-> "push", ok |-> outcome = "accepted"])
          /\ IF outcome = "accepted"
             THEN /\ remote' = (RemoteRef(ctx) :> head) @@ remote
                  /\ Exit("ok")
                  /\ faults' = faults
             ELSE /\ Exit(IF outcome = "error" THEN "error" ELSE "panic")
                  /\ faults' = faults \cup {IF outcome = "error"
                                            THEN "push_error" ELSE "push_rejected"}
                  /\ UNCHANGED remote
    /\ UNCHANGED <<ctx, runs, local, fsys, index, commits, head, branches, history>>

Next ==
    \/ Start
    \/ GetUrls
    \/ Download
    \/ Info
    \/ Place
    \/ Add
    \/ Merge
    \/ Commit
    \/ Branch
    \/ Push

Spec == Init /\ [][Next]_vars

(***************************************************************************)
(* The link extraction on its own: every text of at most MaxLinks items,   *)
(* in the body of an opened issue                                          *)
(***************************************************************************)
ExtractPayloads ==
    {[event_name |-> "issues", action |-> "opened", locked |-> FALSE,
      state |-> "open", id |-> 1, issue_body |-> Some(t),
      comment_body |-> None] : t \in SeqUpTo(Items, MaxLinks)}

InitExtract == InitWith(ExtractPayloads)

NextExtract ==
    \/ Start
    \/ GetUrls

SpecExtract == InitExtract /\ [][NextExtract]_vars

(***************************************************************************)
(* download.rs: the second binary, which fetches the results of an issue   *)
(* and prints their file names and models                                  *)
(***************************************************************************)
\* a match that takes the issue body for every edit
DlResolveBodyEditIsIssue(c) ==
    CASE c.action = "created" -> [bail |-> FALSE, body |-> c.comment_body]
      [] c.action \in {"opened", "edited"} -> [bail |-> FALSE, body |-> c.issue_body]
      [] OTHER -> [bail |-> TRUE, body |-> None]

\* the match of download.rs's get_urls on the action
DlResolveBody(c) ==
    CASE c.action = "created" -> [bail |-> FALSE, body |-> c.comment_body]
      [] c.action = "opened" -> [bail |-> FALSE, body |-> c.issue_body]
      [] c.action = "edited" ->
            IF c.event_name = "issue_comment"
            THEN [bail |-> FALSE, body |-> c.comment_body]
            ELSE [bail |-> FALSE, body |-> c.issue_body]
      [] OTHER -> [bail |-> TRUE, body |-> None]

\* response.text(): the body decoded as UTF-8, not the bytes received
Text(body) == <<"utf8_lossy", body>>

\* the directory tempfile creates: prefix "iocost-benchmark" in the system's
\* temporary directory
TmpDir == <<"/tmp", "/", "iocost-benchmark">>

\* main up to get_urls: GITHUB_TOKEN and the initialisation of octocrab
DlStart ==
    /\ pc = "d_start"
    /\ \E ok \in BOOLEAN :
          IF ok THEN pc' = "d_get_urls" /\ result' = result /\ faults' = faults
                ELSE Exit("error") /\ faults' = faults \cup {"setup"}
    /\ UNCHANGED <<ctx, runs, gitOps, local, fsys, index, git, history>>

\* get_urls of download.rs: the read and parse of GITHUB_CONTEXT, the gate,
\* the choice of the body, the extraction; main returns Ok(()) when the loop
\* has nothing to do
DlGetUrls ==
    /\ pc = "d_get_urls"
    /\ \E parsed \in BOOLEAN :
          LET r == DlResolveBody(ctx)
          IN  IF ~parsed
              THEN Exit("error") /\ urls' = urls /\ faults' = faults \cup {"context"}
              ELSE /\ faults' = faults
                   /\ IF ctx.locked \/ ctx.state # "open"
                      THEN Exit("noop") /\ urls' = urls
                      ELSE IF r.bail THEN Exit("error") /\ urls' = urls
                      ELSE IF ~r.body.present THEN Exit("panic") /\ urls' = urls
                      ELSE /\ urls' = FilterLinks(LinkFinderLinks(r.body.text))
                           /\ IF urls' = <<>> THEN Exit("ok")
                              ELSE pc' = "d_download" /\ result' = result
    /\ UNCHANGED <<ctx, runs, gitOps, urlIdx, filename, model_name,
                   directories_to_merge, mergeIdx, fsys, index, git, history>>

\* download_url of download.rs: the request, the text of the response, a
\* temporary directory, the file created under its bare name in the working
\* directory; the path returned is the one inside the temporary directory,
\* which is removed when tmpdir goes out of scope at the return
DlDownload ==
    /\ pc = "d_download"
    /\ downloads' = Append(downloads, urls[urlIdx])
    /\ \E resp \in Responses : \E tmp_ok \in BOOLEAN :
          /\ faults' = faults
                \cup (IF resp.transport_ok THEN {} ELSE {"transport"})
                \cup (IF resp.status = "404" THEN {"http_status"} ELSE {})
                \cup (IF resp.transport_ok /\ ~tmp_ok THEN {"tmpdir"} ELSE {})
          /\ IF DownloadFails(resp) \/ ~tmp_ok
             THEN /\ Exit("error")
                  /\ UNCHANGED <<filename, files, written>>
             ELSE LET contents == Text(resp.body)
                      name == ResultFilename(contents)
                  IN  /\ filename' = PathJoin(TmpDir, name)
                      /\ files' = Written(files, Components(name), contents)
                      /\ written' = Append(written,
                                       [name |-> name, content |-> contents,
                                        status |-> resp.status, url |-> urls[urlIdx]])
                      /\ pc' = "d_info"
                      /\ result' = result
    /\ UNCHANGED <<ctx, runs, gitOps, urls, urlIdx, model_name, directories_to_merge,
                   mergeIdx, dirs, index, git, infoCalls, placed, merges>>

\* get_normalized_model_name of download.rs: GITHUB_WORKSPACE, the info call,
\* its output as UTF-8, returned whole; then get_summary, the line printed
\* and the next URL
DlInfo ==
    /\ pc = "d_info"
    /\ infoCalls' = Append(infoCalls, <<"--result", filename, "info">>)
    /\ \E outcome \in {"ok", "workspace", "spawn", "utf8"} : \E out \in InfoOutputs :
          IF outcome = "ok"
          THEN /\ model_name' = out.stdout
               /\ urlIdx' = urlIdx + 1
               /\ faults' = faults
               /\ IF urlIdx' > Len(urls) THEN Exit("ok")
                  ELSE pc' = "d_download" /\ result' = result
          ELSE /\ Exit("error")
               /\ faults' = faults \cup {"info_" \o outcome}
               /\ UNCHANGED <<model_name, urlIdx>>
    /\ UNCHANGED <<ctx, runs, gitOps, urls, filename, directories_to_merge, mergeIdx,
                   fsys, index, git, downloads, written, placed, merges>>

NextDownload ==
    \/ DlStart
    \/ DlGetUrls
    \/ DlDownload
    \/ DlInfo

\* either binary, started on the same payloads and trees
InitBoth ==
    \/ InitAt("start", Payloads, InitialTrees)
    \/ InitAt("d_start", Payloads, InitialTrees)

NextBoth ==
    \/ Next
    \/ NextDownload

SpecBoth == InitBoth /\ [][NextBoth]_vars

(***************************************************************************)
(* Successful runs of import-results following each other in one checkout, *)
(* the last one free to fail: the files, the commits and the references    *)
(* stay, the process state is new                                          *)
(***************************************************************************)
RunPayloads ==
    {[event_name |-> "issues", action |-> "opened", locked |-> FALSE,
      state |-> "open", id |-> i, issue_body |-> Some(<<LinkItem(T1)>>),
      comment_body |-> None] : i \in IssueIds}

InitRuns == InitOver(RunPayloads, InitialTrees)

\* main returned Ok(()) and the workflow starts it again, for an event of the
\* same or of another issue
NewRun ==
    /\ pc = "exited"
    /\ result = "ok"
    /\ Len(runs) + 1 < MaxRuns
    /\ runs' = Append(runs, [id |-> ctx.id, head |-> head])
    /\ ctx' \in RunPayloads
    /\ pc' = "start"
    /\ result' = "running"
    /\ urls' = <<>>
    /\ urlIdx' = 1
    /\ filename' = <<>>
    /\ model_name' = <<>>
    /\ directories_to_merge' = <<>>
    /\ mergeIdx' = 1
    /\ index' = {}
    /\ faults' = {}
    /\ downloads' = <<>>
    /\ written' = <<>>
    /\ infoCalls' = <<>>
    /\ placed' = <<>>
    /\ merges' = <<>>
    /\ gitOps' = <<>>
    /\ UNCHANGED <<fsys, git>>

NextRuns ==
    \/ Next
    \/ NewRun

SpecRuns == InitRuns /\ [][NextRuns]_vars

(***************************************************************************)
(* Properties                                                              *)
(***************************************************************************)
\* nothing was published: no commit, no branch, no reference pushed
NothingPublished ==
    /\ Len(commits) = 1
    /\ head = 1
    /\ branches = <<>>
    /\ remote = <<>>

\* the run ended with a non-zero exit code
Aborted == pc = "exited" /\ ExitCode # 0

\* C1: a run in which get_urls returns no accepted URL creates no commit,
\* creates or updates no branch and pushes nothing.
C1_NoPublishWithoutUrls == urls = <<>> => NothingPublished

\* C2: once the merge loop is over, every model directory that received a
\* result file in the run has been merged exactly once, also when several
\* accepted URLs resolved to it.
C2_OneMergePerDirectory ==
    pc \in {"commit", "branch", "push"} \/ result = "ok" =>
        \A i \in DOMAIN placed :
            Cardinality({j \in DOMAIN merges :
                            Components(merges[j].dir) = placed[i].dir}) = 1

\* C3: when download_url, get_normalized_model_name, the rename or
\* merge_results_in_dir fails, the run is over with a non-zero exit code and
\* has published nothing, however many URLs were processed before.
C3_FailureAbortsWithoutPublish ==
    faults \cap {"transport", "info_spawn", "info_stderr", "info_parse",
                 "rename", "merge_spawn", "merge_stderr"} # {}
        => Aborted /\ NothingPublished

\* C3 witness: the info call of a later URL fails after an earlier URL was
\* placed and added, and the run is over.
C3_Witness ==
    /\ "info_stderr" \in faults
    /\ Len(placed) >= 1
    /\ index # {}
    /\ Aborted

\* C4: when an info call has written to its error stream, for the first URL
\* or a later one, no path has been added to the index by the run.
C4_NoStagingBeforeInfoAbort == "info_stderr" \in faults => index = {}

\* C5: on a locked or not open issue the run does nothing and, the payload
\* decoded, ends with exit code 0: it never leaves get_urls but by exiting,
\* requests nothing, writes nothing, creates no file or directory, calls the
\* tool for nothing, adds nothing to the index and publishes nothing.
C5_LockedOrClosedIsNoop ==
    ctx.locked \/ ctx.state # "open" =>
        /\ pc \in {"start", "get_urls", "exited"}
        /\ (pc = "exited" /\ "setup" \notin faults => result = "noop" /\ ExitCode = 0)
        /\ downloads = <<>> /\ written = <<>> /\ infoCalls = <<>>
        /\ placed = <<>> /\ merges = <<>>
        /\ [dirs |-> dirs, files |-> files] \in InitialTrees
        /\ index = {}
        /\ NothingPublished

\* C5 witness: a closed, unlocked issue with an action get_urls does not
\* handle has ended as a no-op.
C5_Witness ==
    /\ ~ctx.locked /\ ctx.state = "closed" /\ ctx.action = "deleted"
    /\ pc = "exited" /\ result = "noop"

\* C6: a response with a non-success status, like a transport failure, makes
\* download_url return an error that ends the run, and no file named from the
\* body of such a response is written or placed.
C6_FetchFailsOnHttpError ==
    /\ faults \cap {"transport", "http_status"} # {}
          => pc = "exited" /\ result = "error"
    /\ \A i \in DOMAIN written : written[i].status = "200"

\* the allowlist as the specification states it: the two literal prefixes
HasTrustedPrefix(l) ==
    \E k \in 0..Len(l) :
        SubSeq(l, 1, k) \in
            { <<"https://", "github.com/", "kov/iocost-benchmarks/", "files/">>,
              <<"https://", "iocost-submit.s3.eu-west-1.amazonaws.com/">> }

\* the text get_urls scans, for the payloads whose body is the issue body
ScannedLinks == LinkFinderLinks(ctx.issue_body.text)

\* the positions of the detected links that have a trusted prefix
TrustedPositions == {i \in 1..Len(ScannedLinks) : HasTrustedPrefix(ScannedLinks[i])}

\* the j-th trusted position, in order of appearance
NthTrusted(j) ==
    CHOOSE i \in TrustedPositions :
        Cardinality({k \in TrustedPositions : k <= i}) = j

\* C7: get_urls returns exactly the detected links that start with an
\* allowlist prefix, in order of appearance and with their duplicates; a link
\* with no allowlist prefix is not returned and not requested.
C7_ExtractExactlyTrusted ==
    /\ pc \notin {"start", "get_urls", "exited"} /\ ctx.action = "opened" =>
          /\ Len(urls) = Cardinality(TrustedPositions)
          /\ \A j \in 1..Len(urls) : urls[j] = ScannedLinks[NthTrusted(j)]
    /\ \A j \in 1..Len(urls) : HasTrustedPrefix(urls[j])
    /\ \A j \in DOMAIN downloads : HasTrustedPrefix(downloads[j])

\* C7 witness: a text with a trusted link on either side of an untrusted one,
\* the first trusted link twice, has been scanned.
C7_Witness ==
    /\ pc \notin {"start", "get_urls", "exited"}
    /\ ScannedLinks = <<T2, U3, T2>>
    /\ urls = <<T2, T2>>

\* C8: no placement follows a merge, and each merge call is given the merged
\* path of its directory and exactly the result files that directory holds
\* at that moment.
C8_MergeAfterPlacementOverDirectory ==
    \A j \in DOMAIN merges :
        /\ merges[j].placedBefore = Len(placed)
        /\ merges[j].args.out = merges[j].dir \o <<"/">> \o MergedName
        /\ merges[j].args.inputs = merges[j].present

\* C9: a normalized model name that contains a path separator makes the run
\* fail, and nothing is placed at a path derived from it.
C9_NoSeparatorInModelName ==
    /\ \A i \in DOMAIN placed : "/" \notin Range(placed[i].model)
    /\ "/" \in Range(model_name) /\ pc = "exited" => ExitCode # 0

\* C10: two downloads have the same file name exactly when they have the
\* same content, and once the loop over the URLs is over a model directory
\* holds exactly one result file for each content placed into it.
C10_ContentNamesDeduplicate ==
    /\ \A i, j \in DOMAIN written :
          (written[i].content = written[j].content)
              <=> (written[i].name = written[j].name)
    /\ pc \in {"merge", "commit", "branch", "push"} \/ result = "ok" =>
          \A i \in DOMAIN placed :
              Cardinality({f \in ResultFilesIn(files, placed[i].dir) :
                              files[f] = placed[i].content}) = 1

\* C10 witness: two different URLs delivered the same content into the same
\* directory, a third file of another content arrived or not, and the run
\* succeeded.
C10_Witness ==
    /\ result = "ok"
    /\ \E i, j \in DOMAIN placed :
          /\ i # j
          /\ written[i].url # written[j].url
          /\ placed[i].content = placed[j].content
          /\ placed[i].dir = placed[j].dir


\* C11: a placement into a model directory that already exists does not fail,
\* and every other file of that directory is still there, unchanged.
C11_PlacementKeepsDirectory ==
    [][pc = "place" /\ Components(ModelDirectory(model_name)) \in dirs =>
          /\ pc' = "add"
          /\ \A f \in DOMAIN files :
                /\ Parent(f) = Components(ModelDirectory(model_name))
                /\ f # Components(DatabaseFile(model_name, filename))
                => f \in DOMAIN files' /\ files'[f] = files[f]]_vars

\* C11 witness: a result of another content has been placed into the
\* directory an earlier run left, beside that run's result and merge.
C11_Witness ==
    /\ pc = "add"
    /\ placed[Len(placed)].dir = SeededDir
    /\ placed[Len(placed)].content = 2
    /\ Append(SeededDir, <<"result-", "1", ".json.gz">>) \in DOMAIN files
    /\ Append(SeededDir, MergedName) \in DOMAIN files

\* the elements of a sequence in order of first appearance
RECURSIVE DistinctInOrder(_, _)
DistinctInOrder(seq, acc) ==
    IF seq = <<>> THEN acc
    ELSE DistinctInOrder(Tail(seq),
            IF seq[1] \in Range(acc) THEN acc ELSE Append(acc, seq[1]))

\* the model directories of the run in the order they were first touched
TouchedDirectories ==
    DistinctInOrder([i \in DOMAIN placed |-> <<"database", "/">> \o placed[i].model],
                    <<>>)

\* C12: the message of the run's commit is "Updated " and the touched model
\* directories, each once, in the order they were first touched, joined
\* with ", ".
C12_MessageListsEachDirectoryOnce ==
    Len(commits) > 1 =>
        commits[Len(commits)].message
            = <<"Updated ">> \o join(TouchedDirectories, <<", ">>)

\* the run has had no effect: nothing requested, written, placed, no tool
\* call, nothing added, nothing published
NoSideEffect ==
    /\ downloads = <<>> /\ written = <<>> /\ infoCalls = <<>>
    /\ placed = <<>> /\ merges = <<>> /\ gitOps = <<>>
    /\ [dirs |-> dirs, files |-> files] \in InitialTrees
    /\ index = {}
    /\ NothingPublished

\* C13: on an open, unlocked issue an action other than opened, edited or
\* created ends the run in get_urls with a non-zero exit code and without a
\* side effect.
C13_UnhandledActionFails ==
    ~ctx.locked /\ ctx.state = "open"
    /\ ctx.action \notin {"opened", "edited", "created"} =>
        /\ pc \in {"start", "get_urls", "exited"}
        /\ (pc = "exited" => ExitCode # 0)
        /\ NoSideEffect

\* C13 witness: get_urls has bailed on the action "deleted" of an open,
\* unlocked issue.
C13_Witness ==
    /\ ~ctx.locked /\ ctx.state = "open" /\ ctx.action = "deleted"
    /\ pc = "exited" /\ result = "error" /\ "setup" \notin faults

\* the order of the publish steps
Rank(op) ==
    CASE op = "stage" -> 1
      [] op = "commit" -> 2
      [] op = "branch" -> 3
      [] op = "push" -> 4

\* C15: the git operations of a run are the additions to the index, then at
\* most one commit, one branch update and one push, in this order; each is
\* attempted only after every earlier one succeeded, and a failed one ends
\* the run with a non-zero exit code, nothing following it.
C15_PublishStepsInOrderOnce ==
    /\ \A i \in 1..(Len(gitOps) - 1) :
          /\ gitOps[i].ok
          /\ Rank(gitOps[i].op) <= Rank(gitOps[i + 1].op)
          /\ gitOps[i + 1].op # "stage" =>
                Rank(gitOps[i + 1].op) = Rank(gitOps[i].op) + 1
                \/ (gitOps[i].op = "stage" /\ gitOps[i + 1].op = "commit")
    /\ Len(gitOps) > 0 /\ gitOps[1].op # "stage" => gitOps[1].op = "commit"
    /\ Len(gitOps) > 0 /\ ~gitOps[Len(gitOps)].ok => Aborted
    /\ Len(commits) = 1 + Cardinality({i \in DOMAIN gitOps :
                                          gitOps[i].op = "commit" /\ gitOps[i].ok})
    /\ result = "ok" =>
          {gitOps[i].op : i \in DOMAIN gitOps} \ {"stage"}
              = {"commit", "branch", "push"}

\* C15 witness: the remote rejected the push that followed the additions, the
\* commit and the branch update, and the run is over.
C15_Witness ==
    /\ Len(gitOps) >= 4
    /\ gitOps[1].op = "stage"
    /\ gitOps[Len(gitOps)] = [op |-> "push", ok |-> FALSE]
    /\ "push_rejected" \in faults
    /\ Aborted

\* the result files in the working directory itself
StrayResults == {f \in DOMAIN files : Len(f) = 1 /\ IsResultName(f[1])}

\* C18: during the loop over the URLs at most one downloaded result lies in
\* the working directory, none before a download and none once a placement
\* is done; after the loop none is left, and as many were renamed into model
\* directories as were written.
C18_AtMostOneStrayResult ==
    /\ pc \in {"download", "info", "place", "add"} => Cardinality(StrayResults) <= 1
    /\ pc \in {"download", "add"} => StrayResults = {}
    /\ pc \in {"merge", "commit", "branch", "push"} \/ result = "ok" =>
          StrayResults = {} /\ Len(placed) = Len(written)

\* C18 witness: the second download of a run lies in the working directory,
\* the first one placed.
C18_Witness ==
    /\ pc = "info"
    /\ Len(placed) = 1
    /\ Cardinality(StrayResults) = 1

\* the paths the run is to add: its results in their model directories and
\* the merged file of every directory it touched
ExpectedResultPaths ==
    {Components(<<"database", "/">> \o placed[i].model \o <<"/">> \o written[i].name) :
        i \in DOMAIN placed}

ExpectedMergedPaths ==
    {Components(<<"database", "/">> \o placed[i].model
                    \o <<"/", "merged-results", ".json.gz">>) :
        i \in DOMAIN placed}

\* C20: the index only receives results of the run at
\* database/{model}/result-{hash}.json.gz and merged files of directories
\* the run touched, and at the commit it has received all of them.
C20_IndexIsResultsAndMerges ==
    /\ index \subseteq ExpectedResultPaths \cup ExpectedMergedPaths
    /\ pc \in {"commit", "branch", "push"} \/ result = "ok" =>
          index = ExpectedResultPaths \cup ExpectedMergedPaths
    /\ Len(commits) > 1 =>
          commits[Len(commits)].tree = ExpectedResultPaths \cup ExpectedMergedPaths

\* C20 witness: a run over two URLs of two models has committed four paths.
C20_Witness ==
    /\ Len(commits) > 1
    /\ Cardinality(ExpectedResultPaths) = 2
    /\ Cardinality(commits[Len(commits)].tree) = 4

\* the runs so far, the present one included: the issue and the commit HEAD
\* designated at the end
RunsSoFar == Append(runs, [id |-> ctx.id, head |-> head])

\* the last run for an issue
LastRunFor(i) ==
    RunsSoFar[CHOOSE k \in DOMAIN RunsSoFar :
                 /\ RunsSoFar[k].id = i
                 /\ \A j \in DOMAIN RunsSoFar : RunsSoFar[j].id = i => j <= k]

\* C16: after successful runs there is, locally and on the remote, exactly
\* one branch iocost-bot/{id} per issue processed, and it designates the
\* commit of the last run for that issue.
C16_OneBranchPerIssue ==
    pc = "exited" /\ result = "ok" =>
        LET ids == {RunsSoFar[k].id : k \in DOMAIN RunsSoFar}
        IN  /\ DOMAIN branches = {<<"iocost-bot/", ToString(i)>> : i \in ids}
            /\ DOMAIN remote
                 = {<<"refs/heads/", "iocost-bot/", ToString(i)>> : i \in ids}
            /\ \A i \in ids :
                  /\ branches[<<"iocost-bot/", ToString(i)>>] = LastRunFor(i).head
                  /\ remote[<<"refs/heads/", "iocost-bot/", ToString(i)>>]
                       = LastRunFor(i).head

\* C16 witness: the second successful run for one issue has moved the one
\* branch of the issue to its commit.
C16_Witness ==
    /\ pc = "exited" /\ result = "ok"
    /\ Len(runs) = 1 /\ runs[1].id = ctx.id
    /\ Cardinality(DOMAIN branches) = 1
    /\ branches[<<"iocost-bot/", ToString(ctx.id)>>] = 3
    /\ runs[1].head = 2

\* the commit HEAD designated when the present run started
HeadAtStart == IF runs = <<>> THEN 1 ELSE runs[Len(runs)].head

\* C17: after a successful run HEAD, the local branch iocost-bot/{id} and the
\* remote reference refs/heads/iocost-bot/{id} designate one commit, made by
\* this run, whose parent is the commit HEAD designated when the run
\* started: the commit of the run before it, if there was one.
C17_HeadBranchAndRemoteAgree ==
    pc = "exited" /\ result = "ok" =>
        /\ head = Len(commits)
        /\ head > HeadAtStart
        /\ commits[head].parent = HeadAtStart
        /\ <<"iocost-bot/", ToString(ctx.id)>> \in DOMAIN branches
        /\ branches[<<"iocost-bot/", ToString(ctx.id)>>] = head
        /\ <<"refs/heads/", "iocost-bot/", ToString(ctx.id)>> \in DOMAIN remote
        /\ remote[<<"refs/heads/", "iocost-bot/", ToString(ctx.id)>>] = head

\* C17 witness: a successful run for another issue followed a successful
\* run, and its commit has the first run's commit as parent.
C17_Witness ==
    /\ pc = "exited" /\ result = "ok"
    /\ Len(runs) = 1 /\ runs[1].id # ctx.id
    /\ commits[head].parent = runs[1].head
    /\ commits[runs[1].head].parent = 1
    /\ remote[<<"refs/heads/", "iocost-bot/", ToString(ctx.id)>>] = head

\* the body the payload selects, and its links with an allowed prefix
SelectedBody ==
    IF ctx.action = "created"
       \/ (ctx.action = "edited" /\ ctx.event_name = "issue_comment")
    THEN ctx.comment_body ELSE ctx.issue_body

TrustedOf(links) ==
    LET RECURSIVE Keep(_)
        Keep(k) == IF k > Len(links) THEN <<>>
                   ELSE IF HasTrustedPrefix(links[k])
                        THEN <<links[k]>> \o Keep(k + 1) ELSE Keep(k + 1)
    IN  Keep(1)

\* C14: in both binaries, for an open, unlocked issue and the actions
\* created, opened and edited, the URLs get_urls returns are the allowed
\* links of the comment body when the action is created or a comment is
\* edited, and of the issue body otherwise; nothing of the other body.
C14_BodyResolution ==
    /\ ~ctx.locked /\ ctx.state = "open"
    /\ ctx.action \in {"created", "opened", "edited"}
    /\ pc \notin {"start", "get_urls", "d_start", "d_get_urls"}
    /\ faults \cap {"setup", "context"} = {}
    => IF SelectedBody.present
       THEN urls = TrustedOf(LinkFinderLinks(SelectedBody.text))
       ELSE urls = <<>> /\ result = "panic"

\* C14 witness: download.rs, run for an edited comment of an issue whose body
\* has a link of its own, has returned the comment's link only.
C14_Witness ==
    /\ pc = "d_download"
    /\ ctx.action = "edited" /\ ctx.event_name = "issue_comment"
    /\ ctx.issue_body = Some(<<LinkItem(T1)>>)
    /\ urls = <<T2>>

\* C19: in both binaries, when the info call is about to be made, the path
\* download_url returned is the path of the file it created, and that file
\* exists.
C19_ReturnedPathIsWrittenFile ==
    pc \in {"info", "d_info"} =>
        /\ filename = written[Len(written)].name
        /\ Components(filename) \in DOMAIN files

=============================================================================
